---- MODULE Spec2Model ----
(***************************************************************************)
(* A model of the two buffer-pool structures of the repository:            *)
(*   - LRUKReplacer          (src/lru_k_replacer.cpp, src/lru_k_replacer.h) *)
(*   - ExtendibleHashTable   (src/extendible_hash_table.cpp)                *)
(* Every public operation is one atomic action (each runs under the        *)
(* component's latch, or is called by one thread at a time).               *)
(***************************************************************************)
EXTENDS Integers, Sequences, FiniteSets, TLC

(***************************************************************************)
(* Bounds of the model.                                                    *)
(***************************************************************************)
\* num_frames handed to the LRUKReplacer constructor: frames are 0..NumFrames-1
NumFrames == 2
\* k handed to the LRUKReplacer constructor ranges over 1..MaxK
MaxK == 2
\* RecordAccess is cut off once current_timestamp_ has reached MaxTime
MaxTime == 5
\* keys handed to the hash table are 0..MaxKey
MaxKey == 3
\* values handed to the hash table are 1..MaxVal
MaxVal == 2
\* bucket_size handed to the ExtendibleHashTable constructor ranges over 1..MaxBucketSize
MaxBucketSize == 2
\* concurrent callers of the replacer make at most MaxTimeThreads calls of RecordAccess
MaxTimeThreads == 3
\* the threads that call one object concurrently are 1..NumThreads
NumThreads == 2
\* the directory is doubled up to 2^MaxDepth slots (more than keys 0..MaxKey need)
MaxDepth == 3

VARIABLES
  \* ---- LRUKReplacer (src/lru_k_replacer.h:39-59)
  k_,                  \* size_t k_
  current_timestamp_,  \* size_t current_timestamp_{0}
  curr_size_,          \* size_t curr_size_{0}
  frame_data_,         \* unordered_map<frame_id_t, AccessHistory>
  history_list_,       \* list<frame_id_t>
  cache_list_,         \* list<frame_id_t>
  r_ret,               \* the last replacer call: operation, arguments, outcome
  acc_log,             \* history variable: per frame, the timestamps of its
                       \* RecordAccess calls since its last removal
  alt,                 \* a replacer that keeps the last k_ timestamps of a
                       \* frame, given the same calls
  alt_ret,             \* what alt returned for the last call
  \* ---- ExtendibleHashTable
  bucket_size_,        \* size_t bucket_size_
  global_depth_,       \* int global_depth_
  num_buckets_,        \* int num_buckets_
  dir_,                \* vector<shared_ptr<Bucket>>: slot i is dir_[i+1]
  heap,                \* the live Bucket objects, by identity
  h_ret,               \* the last table call: operation, arguments, outcome
  abs_map,             \* history variable: the key->value map the calls describe
  m_ret,               \* history variable: what abs_map answers to the last call
  \* ---- threads calling the two objects
  r_latch,             \* LRUKReplacer::latch_: the thread that holds it, or NoThread
  r_pc,                \* per thread: the replacer call it is inside of
  h_latch,             \* ExtendibleHashTable::latch_: the holder, or NoThread
  h_pc,                \* per thread: the table call it is inside of
  h_done               \* history variable: the table as the last completed
                       \* call left it

lruVars == <<k_, current_timestamp_, curr_size_, frame_data_, history_list_,
             cache_list_, r_ret, acc_log, alt, alt_ret>>
hashVars == <<bucket_size_, global_depth_, num_buckets_, dir_, heap, h_ret,
              abs_map, m_ret>>
threadVars == <<r_latch, r_pc, h_latch, h_pc, h_done>>
vars == <<lruVars, hashVars, threadVars>>

(***************************************************************************)
(*                         Threads and the latches                         *)
(***************************************************************************)
Threads == 1..NumThreads

\* no thread holds the mutex
NoThread == 0

\* a thread outside every call
Idle == [op |-> "idle"]

\* std::scoped_lock<std::mutex> lock(latch_) without the wait for the holder
ScopedLockNoWait(latch, t) == TRUE

\* std::scoped_lock<std::mutex> lock(latch_): thread t gets the mutex when no
\* thread holds it, and waits otherwise
ScopedLock(latch, t) == latch = NoThread

(***************************************************************************)
(*                             LRUKReplacer                                *)
(***************************************************************************)
Frames == 0..(NumFrames - 1)

\* a frame_id with no entry in frame_data_
NoEntry == [present |-> FALSE, access_times |-> <<>>, is_evictable |-> FALSE]

\* a value-initialised AccessHistory: empty access_times, is_evictable{false}
DefaultEntry == [present |-> TRUE, access_times |-> <<>>, is_evictable |-> FALSE]

\* frame_data_[f] of std::unordered_map: inserts a default entry for a missing key
Subscript(data, f) ==
  IF data[f].present THEN data ELSE [data EXCEPT ![f] = DefaultEntry]

\* std::list::remove(value): erases every element equal to value
ListRemove(list, f) == SelectSeq(list, LAMBDA x : x # f)

\* The replacer's fields as one record, the form the operations work on.
Replacer ==
  [k |-> k_, ts |-> current_timestamp_, size |-> curr_size_,
   data |-> frame_data_, hist |-> history_list_, cache |-> cache_list_]

\* Remove without frame_data_.erase(frame_id)
RemoveNoErase(R, f) ==
  IF ~R.data[f].present THEN [rep |-> R, thrown |-> FALSE]
  ELSE IF ~R.data[f].is_evictable THEN [rep |-> R, thrown |-> TRUE]
  ELSE LET inHistory == Len(R.data[f].access_times) < R.k IN
       [rep |-> [R EXCEPT !.hist = IF inHistory THEN ListRemove(@, f) ELSE @,
                          !.cache = IF inHistory THEN @ ELSE ListRemove(@, f),
                          !.size = @ - 1],
        thrown |-> FALSE]

\* LRUKReplacer::Remove. thrown: the std::runtime_error of a non-evictable frame.
Remove(R, f) ==
  IF ~R.data[f].present THEN [rep |-> R, thrown |-> FALSE]
  ELSE IF ~R.data[f].is_evictable THEN [rep |-> R, thrown |-> TRUE]
  ELSE LET inHistory == Len(R.data[f].access_times) < R.k IN
       [rep |-> [R EXCEPT !.hist = IF inHistory THEN ListRemove(@, f) ELSE @,
                          !.cache = IF inHistory THEN @ ELSE ListRemove(@, f),
                          !.data = [@ EXCEPT ![f] = NoEntry],
                          !.size = @ - 1],
        thrown |-> FALSE]

\* The first loop of Evict: walks history_list_ from position i and stops at the
\* first evictable frame (frame = -1: none). Each visit is a frame_data_[*it].
RECURSIVE ScanHistory(_, _, _)
ScanHistory(data, list, i) ==
  IF i > Len(list) THEN [data |-> data, frame |-> -1]
  ELSE LET d == Subscript(data, list[i]) IN
       IF d[list[i]].is_evictable
       THEN [data |-> d, frame |-> list[i]]
       ELSE ScanHistory(d, list, i + 1)

\* the oldest stored timestamp, without the advance by size - k_
KthRecentFront(times, k, ub) ==
  IF Len(times) >= k THEN times[1] ELSE ub

\* *access_it after std::advance(access_it, size - k_): the k-th most recent of
\* the stored timestamps. With fewer than k_ stored the size_t difference wraps
\* and the iterator leaves the list: the value read is arbitrary (ub).
KthRecent(times, k, ub) ==
  IF Len(times) >= k THEN times[Len(times) - k + 1] ELSE ub

\* The second loop of Evict over cache_list_, carrying evict_frame and
\* max_time_diff.
RECURSIVE ScanCache(_, _, _, _, _, _)
ScanCache(S, list, i, evict_frame, max_time_diff, ub) ==
  IF i > Len(list) THEN [data |-> S.data, frame |-> evict_frame]
  ELSE LET d == Subscript(S.data, list[i])
           S1 == [S EXCEPT !.data = d]
           time_diff == S.ts - KthRecent(d[list[i]].access_times, S.k, ub)
       IN IF ~d[list[i]].is_evictable
          THEN ScanCache(S1, list, i + 1, evict_frame, max_time_diff, ub)
          ELSE IF evict_frame = -1 \/ time_diff > max_time_diff
          THEN ScanCache(S1, list, i + 1, list[i], time_diff, ub)
          ELSE ScanCache(S1, list, i + 1, evict_frame, max_time_diff, ub)

\* LRUKReplacer::Evict. ok: the bool returned; frame: *frame_id when ok.
Evict(R, ub) ==
  IF R.size = 0 THEN [rep |-> R, ok |-> FALSE, frame |-> -1]
  ELSE LET h == ScanHistory(R.data, R.hist, 1)
           Rh == [R EXCEPT !.data = h.data]
       IN IF h.frame # -1
          THEN [rep |-> Remove(Rh, h.frame).rep, ok |-> TRUE, frame |-> h.frame]
          ELSE LET c == ScanCache(Rh, R.cache, 1, -1, 0, ub)
                   Rc == [R EXCEPT !.data = c.data]
               IN IF c.frame # -1
                  THEN [rep |-> Remove(Rc, c.frame).rep, ok |-> TRUE,
                        frame |-> c.frame]
                  ELSE [rep |-> Rc, ok |-> FALSE, frame |-> -1]

\* LRUKReplacer::RecordAccess (frame_id < replacer_size_ is asserted).
RecordAccess(R, f) ==
  LET ts == R.ts + 1
      d == Subscript(R.data, f)
      times == Append(d[f].access_times, ts)
  IN IF d[f].access_times = <<>>
     THEN [R EXCEPT !.ts = ts,
                    !.data = [d EXCEPT ![f].access_times = times],
                    !.hist = Append(@, f)]
     ELSE IF Len(times) = R.k
     THEN [R EXCEPT !.ts = ts,
                    !.data = [d EXCEPT ![f].access_times = times],
                    !.hist = ListRemove(@, f),
                    !.cache = Append(@, f)]
     ELSE IF Len(times) > R.k /\ Len(times) > R.k + 1
     THEN [R EXCEPT !.ts = ts,
                    !.data = [d EXCEPT ![f].access_times = Tail(times)]]
     ELSE [R EXCEPT !.ts = ts,
                    !.data = [d EXCEPT ![f].access_times = times]]

\* RecordAccess of a replacer that keeps k timestamps: lines 98-101 with
\* size > k_ in place of size > k_ + 1
RecordAccessKeepK(R, f) ==
  LET ts == R.ts + 1
      d == Subscript(R.data, f)
      times == Append(d[f].access_times, ts)
  IN IF d[f].access_times = <<>>
     THEN [R EXCEPT !.ts = ts,
                    !.data = [d EXCEPT ![f].access_times = times],
                    !.hist = Append(@, f)]
     ELSE IF Len(times) = R.k
     THEN [R EXCEPT !.ts = ts,
                    !.data = [d EXCEPT ![f].access_times = times],
                    !.hist = ListRemove(@, f),
                    !.cache = Append(@, f)]
     ELSE IF Len(times) > R.k
     THEN [R EXCEPT !.ts = ts,
                    !.data = [d EXCEPT ![f].access_times = Tail(times)]]
     ELSE [R EXCEPT !.ts = ts,
                    !.data = [d EXCEPT ![f].access_times = times]]

\* SetEvictable without the test for an unchanged flag
SetEvictableNoCheck(R, f, set_evictable) ==
  IF ~R.data[f].present THEN R
  ELSE [R EXCEPT !.data = [@ EXCEPT ![f].is_evictable = set_evictable],
                 !.size = IF set_evictable THEN @ + 1 ELSE @ - 1]

\* LRUKReplacer::SetEvictable (frame_id < replacer_size_ is asserted).
SetEvictable(R, f, set_evictable) ==
  IF ~R.data[f].present THEN R
  ELSE IF R.data[f].is_evictable = set_evictable THEN R
  ELSE [R EXCEPT !.data = [@ EXCEPT ![f].is_evictable = set_evictable],
                 !.size = IF set_evictable THEN @ + 1 ELSE @ - 1]

\* LRUKReplacer::Size
Size(R) == R.size

\* The record of a call: op, its frame argument (-1: none), its flag argument,
\* ok (Evict's bool; FALSE for a Remove that threw), out (Evict's frame, Size's
\* value, otherwise -1).
Ret(op, f, b, ok, out) ==
  [op |-> op, frame |-> f, flag |-> b, ok |-> ok, out |-> out]

\* What alt returned: ok and out as in Ret
AltRet(ok, out) == [ok |-> ok, out |-> out]

\* LRUKReplacer::LRUKReplacer(num_frames, k)
LRUInit ==
  /\ k_ \in 1..MaxK
  /\ current_timestamp_ = 0
  /\ curr_size_ = 0
  /\ frame_data_ = [f \in Frames |-> NoEntry]
  /\ history_list_ = <<>>
  /\ cache_list_ = <<>>
  /\ r_ret = Ret("new", -1, FALSE, TRUE, -1)
  /\ acc_log = [f \in Frames |-> <<>>]
  /\ alt = [k |-> k_, ts |-> 0, size |-> 0, data |-> [f \in Frames |-> NoEntry],
            hist |-> <<>>, cache |-> <<>>]
  /\ alt_ret = AltRet(TRUE, -1)

\* The fields after a call that left the replacer as R.
Store(R) ==
  /\ k_' = R.k
  /\ current_timestamp_' = R.ts
  /\ curr_size_' = R.size
  /\ frame_data_' = R.data
  /\ history_list_' = R.hist
  /\ cache_list_' = R.cache

DoRecordAccess(f) ==
  /\ current_timestamp_ < MaxTime
  /\ Store(RecordAccess(Replacer, f))
  /\ r_ret' = Ret("RecordAccess", f, FALSE, TRUE, -1)
  /\ acc_log' = [acc_log EXCEPT ![f] = Append(@, current_timestamp_ + 1)]
  /\ alt' = RecordAccessKeepK(alt, f)
  /\ alt_ret' = AltRet(TRUE, -1)
  /\ UNCHANGED hashVars

DoSetEvictable(f, b) ==
  /\ Store(SetEvictable(Replacer, f, b))
  /\ r_ret' = Ret("SetEvictable", f, b, TRUE, -1)
  /\ alt' = SetEvictable(alt, f, b)
  /\ alt_ret' = AltRet(TRUE, -1)
  /\ UNCHANGED <<acc_log, hashVars>>

DoEvict(ub) ==
  LET e == Evict(Replacer, ub) IN
  /\ Store(e.rep)
  /\ r_ret' = Ret("Evict", -1, FALSE, e.ok, e.frame)
  /\ acc_log' = IF e.ok THEN [acc_log EXCEPT ![e.frame] = <<>>] ELSE acc_log
  /\ LET a == Evict(alt, ub) IN
       /\ alt' = a.rep
       /\ alt_ret' = AltRet(a.ok, a.frame)
  /\ UNCHANGED hashVars

DoRemove(f) ==
  LET r == Remove(Replacer, f) IN
  /\ Store(r.rep)
  /\ r_ret' = Ret("Remove", f, FALSE, ~r.thrown, -1)
  /\ acc_log' = IF ~r.thrown /\ frame_data_[f].present
                THEN [acc_log EXCEPT ![f] = <<>>] ELSE acc_log
  /\ LET a == Remove(alt, f) IN
       /\ alt' = a.rep
       /\ alt_ret' = AltRet(~a.thrown, -1)
  /\ UNCHANGED hashVars

DoSize ==
  /\ r_ret' = Ret("Size", -1, FALSE, TRUE, Size(Replacer))
  /\ alt_ret' = AltRet(TRUE, Size(alt))
  /\ UNCHANGED <<k_, current_timestamp_, curr_size_, frame_data_,
                 history_list_, cache_list_, acc_log, alt, hashVars>>

\* The values an out-of-range read of Evict's second loop can produce: any
\* timestamp when some frame of cache_list_ stores fewer than k_ timestamps.
UBValues ==
  IF \E i \in 1..Len(cache_list_) :
       Len(frame_data_[cache_list_[i]].access_times) < k_
  THEN 0..MaxTime ELSE {0}

NextLRU ==
  \/ \E f \in Frames : DoRecordAccess(f) /\ UNCHANGED threadVars
  \/ \E f \in Frames, b \in BOOLEAN : DoSetEvictable(f, b) /\ UNCHANGED threadVars
  \/ \E ub \in UBValues : DoEvict(ub) /\ UNCHANGED threadVars
  \/ \E f \in Frames : DoRemove(f) /\ UNCHANGED threadVars
  \/ DoSize /\ UNCHANGED threadVars

(***************************************************************************)
(*                          ExtendibleHashTable                            *)
(***************************************************************************)
Keys == 0..MaxKey
Values == 1..MaxVal

\* no value: the value of a Find that found nothing, an absent key of abs_map
NoValue == 0

RECURSIVE Pow2(_)
\* 1 << n
Pow2(n) == IF n = 0 THEN 1 ELSE 2 * Pow2(n - 1)

RECURSIVE BitAnd(_, _)
\* a & b on non-negative integers
BitAnd(a, b) ==
  IF a = 0 \/ b = 0 THEN 0
  ELSE (a % 2) * (b % 2) + 2 * BitAnd(a \div 2, b \div 2)

\* std::hash<K>()(key) for the integer keys of the instantiations: the value itself
Hash(key) == key

\* The table's fields as one record, the form the operations work on. splits
\* and doublings count the calls of SplitTheBucket and DirectoryExtension made
\* so far by the running operation.
Table ==
  [bucket_size |-> bucket_size_, global_depth |-> global_depth_,
   num_buckets |-> num_buckets_, dir |-> dir_, heap |-> heap,
   splits |-> 0, doublings |-> 0]

\* Bucket::Bucket(array_size, depth)
Bucket(array_size, depth) == [size_ |-> array_size, depth_ |-> depth, list_ |-> <<>>]

\* Bucket::IsFull
IsFull(B) == Len(B.list_) >= B.size_

\* Bucket::GetDepth
GetDepth(B) == B.depth_

\* Bucket::IncrementDepth
IncrementDepth(B) == [B EXCEPT !.depth_ = @ + 1]

\* Bucket::GetItems
GetItems(B) == B.list_

\* std::find_if over list_ for key: the position of the first item with that
\* key, 0 for list_.end()
FindIf(list, key) ==
  IF \E i \in 1..Len(list) : list[i].first = key
  THEN CHOOSE i \in 1..Len(list) :
         /\ list[i].first = key
         /\ \A j \in 1..(i - 1) : list[j].first # key
  ELSE 0

\* Bucket::Find
BucketFind(B, key) ==
  LET it == FindIf(B.list_, key) IN
  IF it # 0 THEN [found |-> TRUE, value |-> B.list_[it].second]
  ELSE [found |-> FALSE, value |-> NoValue]

\* Bucket::Remove
BucketRemove(B, key) ==
  LET it == FindIf(B.list_, key) IN
  IF it # 0
  THEN [bucket |-> [B EXCEPT !.list_ = SubSeq(@, 1, it - 1) \o SubSeq(@, it + 1, Len(@))],
        ok |-> TRUE]
  ELSE [bucket |-> B, ok |-> FALSE]

\* Bucket::Insert that leaves the value of a key it already holds
BucketInsertOverwritesFront(B, key, value) ==
  LET it == FindIf(B.list_, key) IN
  IF it # 0 THEN [bucket |-> [B EXCEPT !.list_[1].second = value], ok |-> TRUE]
  ELSE IF Len(B.list_) >= B.size_ THEN [bucket |-> B, ok |-> FALSE]
  ELSE [bucket |-> [B EXCEPT !.list_ = Append(@, [first |-> key, second |-> value])],
        ok |-> TRUE]

BucketInsertKeepsOld(B, key, value) ==
  LET it == FindIf(B.list_, key) IN
  IF it # 0 THEN [bucket |-> B, ok |-> TRUE]
  ELSE IF Len(B.list_) >= B.size_ THEN [bucket |-> B, ok |-> FALSE]
  ELSE [bucket |-> [B EXCEPT !.list_ = Append(@, [first |-> key, second |-> value])],
        ok |-> TRUE]

\* Bucket::Insert
BucketInsert(B, key, value) ==
  LET it == FindIf(B.list_, key) IN
  IF it # 0 THEN [bucket |-> [B EXCEPT !.list_[it].second = value], ok |-> TRUE]
  ELSE IF IsFull(B) THEN [bucket |-> B, ok |-> FALSE]
  ELSE [bucket |-> [B EXCEPT !.list_ = Append(@, [first |-> key, second |-> value])],
        ok |-> TRUE]

\* ExtendibleHashTable::IndexOf
IndexOf(T, key) ==
  LET mask == Pow2(T.global_depth) - 1 IN BitAnd(Hash(key), mask)

\* dir_[i] for a 0-based slot index
Slot(T, i) == T.dir[i + 1]

\* std::make_shared<Bucket>: the identity of a new object, one no live bucket has
NewId(h) == CHOOSE n \in 0..Cardinality(DOMAIN h) : n \notin DOMAIN h

\* DirectoryExtension that fills the new half with the first slot's bucket
DirectoryExtensionFirstSlot(T) ==
  [T EXCEPT !.dir = @ \o [i \in 1..Len(@) |-> @[1]], !.doublings = @ + 1]

\* ExtendibleHashTable::DirectoryExtension
DirectoryExtension(T) ==
  [T EXCEPT !.dir = @ \o @, !.doublings = @ + 1]

\* split_bit one place too high
SplitBitNext(local_depth) == Pow2(local_depth + 1)

\* size_t split_bit = 1 << local_depth
SplitBit(local_depth) == Pow2(local_depth)

\* size_t depth_mask = (1 << bucket->GetDepth()) - 1
DepthMask(depth) == Pow2(depth) - 1

\* The test of SplitTheBucket's second loop with its branches exchanged
ToBucket1Inverted(item, depth_mask, split_bit) ==
  BitAnd(BitAnd(item.first, depth_mask), split_bit) = 0

\* new_index & split_bit of SplitTheBucket's second loop: the item goes to
\* new_bucket_1
ToBucket1(item, depth_mask, split_bit) ==
  BitAnd(BitAnd(Hash(item.first), depth_mask), split_bit) # 0

\* The two make_shared<Bucket> of SplitTheBucket: <<new_bucket_0, new_bucket_1>>.
\* The split bucket is still alive, so neither has its identity.
SplitNew(T) ==
  LET new_bucket_0 == NewId(T.heap)
      new_bucket_1 == NewId((new_bucket_0 :> Bucket(0, 0)) @@ T.heap)
  IN <<new_bucket_0, new_bucket_1>>

\* SplitTheBucket's first loop: dir_ with the slots of the split bucket
\* redirected
SplitDir(T, key) ==
  LET bucket == Slot(T, IndexOf(T, key))
      split_bit == SplitBit(GetDepth(T.heap[bucket]))
      new == SplitNew(T)
  IN [i \in 1..Len(T.dir) |->
        IF T.dir[i] = bucket
        THEN IF BitAnd(i - 1, split_bit) # 0 THEN new[2] ELSE new[1]
        ELSE T.dir[i]]

\* SplitTheBucket's objects: the two new buckets with the items of the split
\* one, in order (each takes at most what the old one held, so every
\* Bucket::Insert succeeds). The split bucket has no owner left when the call
\* and the caller's loop body end, and leaves the heap.
SplitHeap(T, key) ==
  LET bucket == Slot(T, IndexOf(T, key))
      local_depth == GetDepth(T.heap[bucket])
      old == IncrementDepth(T.heap[bucket])
      depth_mask == DepthMask(GetDepth(old))
      split_bit == SplitBit(local_depth)
      new == SplitNew(T)
      B0 == [Bucket(T.bucket_size, GetDepth(old)) EXCEPT !.list_ =
               SelectSeq(GetItems(old),
                         LAMBDA item : ~ToBucket1(item, depth_mask, split_bit))]
      B1 == [Bucket(T.bucket_size, GetDepth(old)) EXCEPT !.list_ =
               SelectSeq(GetItems(old),
                         LAMBDA item : ToBucket1(item, depth_mask, split_bit))]
      all == (new[1] :> B0) @@ (new[2] :> B1) @@ T.heap
  IN [b \in DOMAIN all \ {bucket} |-> all[b]]

\* SplitTheBucket without ++num_buckets_
SplitTheBucketNoCount(T, key) ==
  [T EXCEPT !.dir = SplitDir(T, key),
            !.heap = SplitHeap(T, key),
            !.splits = @ + 1]

\* ExtendibleHashTable::SplitTheBucket
SplitTheBucket(T, key) ==
  [T EXCEPT !.dir = SplitDir(T, key),
            !.heap = SplitHeap(T, key),
            !.num_buckets = @ + 1,
            !.splits = @ + 1]

\* ExtendibleHashTable::Insert: the while (true) loop, one call per iteration
RECURSIVE InsertAlwaysExtends(_, _, _)
InsertAlwaysExtends(T, key, value) ==
  LET bucket == Slot(T, IndexOf(T, key))
      ins == BucketInsert(T.heap[bucket], key, value)
  IN IF ins.ok THEN [T EXCEPT !.heap[bucket] = ins.bucket]
     ELSE LET T1 == [DirectoryExtension(T) EXCEPT !.global_depth = @ + 1]
          IN InsertAlwaysExtends(SplitTheBucket(T1, key), key, value)

RECURSIVE Insert(_, _, _)
Insert(T, key, value) ==
  LET index == IndexOf(T, key)
      bucket == Slot(T, index)
      ins == BucketInsert(T.heap[bucket], key, value)
  IN IF ins.ok THEN [T EXCEPT !.heap[bucket] = ins.bucket]
     ELSE LET T1 == IF T.global_depth = GetDepth(T.heap[bucket])
                    THEN [DirectoryExtension(T) EXCEPT !.global_depth = @ + 1]
                    ELSE T
          IN Insert(SplitTheBucket(T1, key), key, value)

\* ExtendibleHashTable::Find
Find(T, key) == BucketFind(T.heap[Slot(T, IndexOf(T, key))], key)

\* ExtendibleHashTable::Remove
HashRemove(T, key) ==
  LET bucket == Slot(T, IndexOf(T, key))
      rem == BucketRemove(T.heap[bucket], key)
  IN [tab |-> [T EXCEPT !.heap[bucket] = rem.bucket], ok |-> rem.ok]

\* ExtendibleHashTable::GetGlobalDepth
GetGlobalDepth(T) == T.global_depth

\* ExtendibleHashTable::GetLocalDepth
GetLocalDepth(T, dir_index) == GetDepth(T.heap[Slot(T, dir_index)])

\* ExtendibleHashTable::GetNumBuckets
GetNumBuckets(T) == T.num_buckets

\* global_depth_ of a new table
InitGlobalDepth == 0

\* num_buckets_ of a new table
InitNumBuckets == 1

\* The record of a table call: op, key and value arguments, ok (the bool
\* returned), value (what Find stored), splits and doublings the call made.
HRet(op, key, value, ok, out, splits, doublings) ==
  [op |-> op, key |-> key, value |-> value, ok |-> ok, out |-> out,
   splits |-> splits, doublings |-> doublings]

\* What the key->value map answers: op, ok (for Insert: the key was present
\* before the call), out
MRet(op, ok, out) == [op |-> op, ok |-> ok, out |-> out]

\* ExtendibleHashTable::ExtendibleHashTable(bucket_size)
HashInit ==
  /\ bucket_size_ \in 1..MaxBucketSize
  /\ global_depth_ = InitGlobalDepth
  /\ num_buckets_ = InitNumBuckets
  /\ dir_ = <<0>>
  /\ heap = (0 :> Bucket(bucket_size_, 0))
  /\ h_ret = HRet("new", -1, NoValue, TRUE, NoValue, 0, 0)
  /\ abs_map = [k \in Keys |-> NoValue]
  /\ m_ret = MRet("new", TRUE, NoValue)

\* The fields after a call that left the table as T.
HashStore(T) ==
  /\ bucket_size_' = T.bucket_size
  /\ global_depth_' = T.global_depth
  /\ num_buckets_' = T.num_buckets
  /\ dir_' = T.dir
  /\ heap' = T.heap

DoInsert(key, value) ==
  LET T == Insert(Table, key, value) IN
  /\ HashStore(T)
  /\ h_ret' = HRet("Insert", key, value, TRUE, NoValue, T.splits, T.doublings)
  /\ abs_map' = [abs_map EXCEPT ![key] = value]
  /\ m_ret' = MRet("Insert", abs_map[key] # NoValue, NoValue)
  /\ UNCHANGED lruVars

DoFind(key) ==
  LET r == Find(Table, key) IN
  /\ h_ret' = HRet("Find", key, NoValue, r.found, r.value, 0, 0)
  /\ m_ret' = MRet("Find", abs_map[key] # NoValue, abs_map[key])
  /\ UNCHANGED <<bucket_size_, global_depth_, num_buckets_, dir_, heap, abs_map,
                 lruVars>>

DoHashRemove(key) ==
  LET r == HashRemove(Table, key) IN
  /\ HashStore(r.tab)
  /\ h_ret' = HRet("Remove", key, NoValue, r.ok, NoValue, 0, 0)
  /\ abs_map' = [abs_map EXCEPT ![key] = NoValue]
  /\ m_ret' = MRet("Remove", abs_map[key] # NoValue, NoValue)
  /\ UNCHANGED lruVars

DoGetGlobalDepth ==
  /\ h_ret' = HRet("GetGlobalDepth", -1, NoValue, TRUE, GetGlobalDepth(Table), 0, 0)
  /\ m_ret' = MRet("GetGlobalDepth", TRUE, NoValue)
  /\ UNCHANGED <<bucket_size_, global_depth_, num_buckets_, dir_, heap, abs_map,
                 lruVars>>

DoGetLocalDepth(dir_index) ==
  /\ h_ret' = HRet("GetLocalDepth", dir_index, NoValue, TRUE,
                   GetLocalDepth(Table, dir_index), 0, 0)
  /\ m_ret' = MRet("GetLocalDepth", TRUE, NoValue)
  /\ UNCHANGED <<bucket_size_, global_depth_, num_buckets_, dir_, heap, abs_map,
                 lruVars>>

DoGetNumBuckets ==
  /\ h_ret' = HRet("GetNumBuckets", -1, NoValue, TRUE, GetNumBuckets(Table), 0, 0)
  /\ m_ret' = MRet("GetNumBuckets", TRUE, NoValue)
  /\ UNCHANGED <<bucket_size_, global_depth_, num_buckets_, dir_, heap, abs_map,
                 lruVars>>

NextHash ==
  \/ \E key \in Keys, value \in Values : DoInsert(key, value) /\ UNCHANGED threadVars
  \/ \E key \in Keys : DoFind(key) /\ UNCHANGED threadVars
  \/ \E key \in Keys : DoHashRemove(key) /\ UNCHANGED threadVars
  \/ DoGetGlobalDepth /\ UNCHANGED threadVars
  \/ \E dir_index \in 0..(Len(dir_) - 1) :
       DoGetLocalDepth(dir_index) /\ UNCHANGED threadVars
  \/ DoGetNumBuckets /\ UNCHANGED threadVars

(***************************************************************************)
(* Specifications: the two components share no state, each is run alone.   *)
(***************************************************************************)
\* no thread is inside a call and both mutexes are free
ThreadInit ==
  /\ r_latch = NoThread
  /\ r_pc = [t \in Threads |-> Idle]
  /\ h_latch = NoThread
  /\ h_pc = [t \in Threads |-> Idle]
  /\ h_done = Table

InitLRU == LRUInit /\ HashInit /\ bucket_size_ = 1 /\ ThreadInit
SpecLRU == InitLRU /\ [][NextLRU]_vars

InitHash == HashInit /\ LRUInit /\ k_ = 1 /\ ThreadInit
SpecHash == InitHash /\ [][NextHash]_vars

(***************************************************************************)
(* LRUKReplacer called by several threads. Evict, RecordAccess,            *)
(* SetEvictable and Size take latch_ on entry and hold it until they       *)
(* return; the public Remove takes no lock (lru_k_replacer.cpp:141-144).   *)
(***************************************************************************)
\* a replacer call a thread is inside of
Call(op, f, b) == [op |-> op, frame |-> f, flag |-> b]

\* the calls whose first statement is std::scoped_lock lock(latch_)
LockedCalls ==
  {Call("RecordAccess", f, FALSE) : f \in Frames}
    \cup {Call("SetEvictable", f, b) : f \in Frames, b \in BOOLEAN}
    \cup {Call("Evict", -1, FALSE), Call("Size", -1, FALSE)}

\* the thread leaves its replacer call; a scoped_lock it holds is released
Return(t) ==
  /\ r_pc' = [r_pc EXCEPT ![t] = Idle]
  /\ r_latch' = IF r_latch = t THEN NoThread ELSE r_latch

\* entry of Evict, RecordAccess, SetEvictable, Size: the scoped_lock
Lock(t, call) ==
  /\ r_pc[t] = Idle
  /\ call.op = "RecordAccess" => current_timestamp_ < MaxTimeThreads
  /\ ScopedLock(r_latch, t)
  /\ r_latch' = t
  /\ r_pc' = [r_pc EXCEPT ![t] = call]
  /\ UNCHANGED <<lruVars, hashVars, h_latch, h_pc, h_done>>

RunRecordAccess(t) ==
  /\ r_pc[t] # Idle
  /\ r_pc[t].op = "RecordAccess"
  /\ DoRecordAccess(r_pc[t].frame)
  /\ Return(t)
  /\ UNCHANGED <<h_latch, h_pc, h_done>>

RunSetEvictable(t) ==
  /\ r_pc[t] # Idle
  /\ r_pc[t].op = "SetEvictable"
  /\ DoSetEvictable(r_pc[t].frame, r_pc[t].flag)
  /\ Return(t)
  /\ UNCHANGED <<h_latch, h_pc, h_done>>

RunEvict(t, ub) ==
  /\ r_pc[t] # Idle
  /\ r_pc[t].op = "Evict"
  /\ DoEvict(ub)
  /\ Return(t)
  /\ UNCHANGED <<h_latch, h_pc, h_done>>

RunSize(t) ==
  /\ r_pc[t] # Idle
  /\ r_pc[t].op = "Size"
  /\ DoSize
  /\ Return(t)
  /\ UNCHANGED <<h_latch, h_pc, h_done>>

\* entry of the public Remove: no lock is taken
EnterRemove(t, f) ==
  /\ r_pc[t] = Idle
  /\ r_pc' = [r_pc EXCEPT ![t] = Call("Remove", f, FALSE)]
  /\ UNCHANGED <<lruVars, hashVars, r_latch, h_latch, h_pc, h_done>>

\* Remove, lines 146-154: the lookup and the test of is_evictable. flag of the
\* thread's call records that the test passed.
RemoveCheck(t) ==
  /\ r_pc[t] # Idle
  /\ r_pc[t].op = "Remove"
  /\ ~r_pc[t].flag
  /\ LET f == r_pc[t].frame IN
     IF ~frame_data_[f].present \/ ~frame_data_[f].is_evictable
     THEN /\ r_ret' = Ret("Remove", f, FALSE, ~frame_data_[f].present, -1)
          /\ alt_ret' = AltRet(~frame_data_[f].present, -1)
          /\ Return(t)
          /\ UNCHANGED <<k_, current_timestamp_, curr_size_, frame_data_,
                         history_list_, cache_list_, acc_log, alt>>
     ELSE /\ r_pc' = [r_pc EXCEPT ![t].flag = TRUE]
          /\ UNCHANGED <<lruVars, r_latch>>
  /\ UNCHANGED <<hashVars, h_latch, h_pc, h_done>>

\* Remove, lines 157-168, with the list chosen by in_history
RemoveTail(R, f, in_history) ==
  [R EXCEPT !.hist = IF in_history THEN ListRemove(@, f) ELSE @,
            !.cache = IF in_history THEN @ ELSE ListRemove(@, f),
            !.data = [@ EXCEPT ![f] = NoEntry],
            !.size = @ - 1]

\* what it->second.access_times.size() < k_ (line 157) can give: the entry's
\* answer, or either answer when another thread erased the entry since the
\* lookup (the iterator dangles)
InHistoryValues(f) ==
  IF frame_data_[f].present
  THEN {Len(frame_data_[f].access_times) < k_}
  ELSE BOOLEAN

\* Remove, lines 157-168: the list removal, the erase and curr_size_--.
\* curr_size_ is a size_t: below 0 the integer stands for its value mod 2^64.
RemoveErase(t, in_history) ==
  /\ r_pc[t] # Idle
  /\ r_pc[t].op = "Remove"
  /\ r_pc[t].flag
  /\ LET f == r_pc[t].frame IN
       /\ Store(RemoveTail(Replacer, f, in_history))
       /\ r_ret' = Ret("Remove", f, FALSE, TRUE, -1)
       /\ acc_log' = [acc_log EXCEPT ![f] = <<>>]
       /\ alt' = Remove(alt, f).rep
       /\ alt_ret' = AltRet(TRUE, -1)
  /\ Return(t)
  /\ UNCHANGED <<hashVars, h_latch, h_pc, h_done>>

NextLRUThreads ==
  \/ \E t \in Threads, call \in LockedCalls : Lock(t, call)
  \/ \E t \in Threads : RunRecordAccess(t)
  \/ \E t \in Threads : RunSetEvictable(t)
  \/ \E t \in Threads, ub \in UBValues : RunEvict(t, ub)
  \/ \E t \in Threads : RunSize(t)
  \/ \E t \in Threads, f \in Frames : EnterRemove(t, f)
  \/ \E t \in Threads : RemoveCheck(t)
  \/ \E t \in Threads, f \in Frames :
       \E in_history \in InHistoryValues(f) :
         r_pc[t] # Idle /\ r_pc[t].frame = f /\ RemoveErase(t, in_history)

\* The replacer is built with k = MaxK >= 2, where the single-threaded
\* operations keep the lists and curr_size_ consistent.
InitLRUThreads == InitLRU /\ k_ = MaxK

SpecLRUThreads == InitLRUThreads /\ [][NextLRUThreads]_vars

(***************************************************************************)
(* ExtendibleHashTable called by several threads. Every public operation   *)
(* takes latch_ in its first statement and holds it until it returns.      *)
(* Insert is taken one statement of its loop at a time; the operations     *)
(* without a loop are one step each.                                       *)
(***************************************************************************)
\* the thread that makes the next call: the threads are interchangeable, so
\* it is taken to be the first one outside every call
Caller(pc, t) == pc[t] = Idle /\ \A u \in Threads : u < t => pc[u] # Idle

\* Insert(key, value) at a statement of its loop (stage), with the splits and
\* doublings it has made
InsertCall(key, value, stage, splits, doublings) ==
  [op |-> "Insert", key |-> key, value |-> value, stage |-> stage,
   splits |-> splits, doublings |-> doublings]

\* thread t is inside Insert at the statement stage
InsertAt(t, stage) == h_pc[t] # Idle /\ h_pc[t].stage = stage

\* the thread leaves its table call; a scoped_lock it holds is released
HashReturn(t) ==
  /\ h_pc' = [h_pc EXCEPT ![t] = Idle]
  /\ h_latch' = IF h_latch = t THEN NoThread ELSE h_latch

\* Insert, lines 114-121, for a call that has made splits and doublings so
\* far: bucket->Insert; on success the return (the scoped_lock is released),
\* otherwise the test global_depth_ == bucket->GetDepth(), under the lock
InsertAttempt(t, key, value, splits, doublings) ==
  LET bucket == Slot(Table, IndexOf(Table, key))
      ins == BucketInsert(heap[bucket], key, value)
  IN /\ m_ret' = MRet("Insert", abs_map[key] # NoValue, NoValue)
     /\ IF ins.ok
        THEN /\ heap' = [heap EXCEPT ![bucket] = ins.bucket]
             /\ h_ret' = HRet("Insert", key, value, TRUE, NoValue, splits, doublings)
             /\ abs_map' = [abs_map EXCEPT ![key] = value]
             /\ h_done' = [Table EXCEPT !.heap = heap']
             /\ HashReturn(t)
        ELSE /\ h_pc' = [h_pc EXCEPT ![t] =
                           InsertCall(key, value,
                                      IF global_depth_ = GetDepth(heap[bucket])
                                      THEN "extend" ELSE "split",
                                      splits, doublings)]
             /\ h_latch' = t
             /\ h_ret' = HRet("Insert", key, value, FALSE, NoValue, 0, 0)
             /\ UNCHANGED <<heap, abs_map, h_done>>
     /\ UNCHANGED <<bucket_size_, global_depth_, num_buckets_, dir_,
                    lruVars, r_latch, r_pc>>

\* Insert, line 111 and the first pass of the loop: the scoped_lock, then
\* lines 114-121
InsertLock(t, key, value) ==
  /\ Caller(h_pc, t)
  /\ ScopedLock(h_latch, t)
  /\ InsertAttempt(t, key, value, 0, 0)

\* Insert, lines 114-121 after a split: the next pass of the loop
InsertTry(t) ==
  /\ InsertAt(t, "try")
  /\ InsertAttempt(t, h_pc[t].key, h_pc[t].value, h_pc[t].splits,
                   h_pc[t].doublings)

\* Insert, line 122: DirectoryExtension()
InsertExtend(t) ==
  /\ InsertAt(t, "extend")
  /\ global_depth_ < MaxDepth
  /\ dir_' = DirectoryExtension(Table).dir
  /\ h_pc' = [h_pc EXCEPT ![t].stage = "inc", ![t].doublings = @ + 1]
  /\ UNCHANGED <<bucket_size_, global_depth_, num_buckets_, heap, h_ret, abs_map,
                 m_ret, h_latch, h_done, lruVars, r_latch, r_pc>>

\* Insert, line 123: global_depth_++
InsertIncDepth(t) ==
  /\ InsertAt(t, "inc")
  /\ global_depth_' = global_depth_ + 1
  /\ h_pc' = [h_pc EXCEPT ![t].stage = "split"]
  /\ UNCHANGED <<bucket_size_, num_buckets_, dir_, heap, h_ret, abs_map, m_ret,
                 h_latch, h_done, lruVars, r_latch, r_pc>>

\* Insert, line 125: SplitTheBucket(key), and back to the head of the loop
InsertSplit(t) ==
  /\ InsertAt(t, "split")
  /\ HashStore(SplitTheBucket(Table, h_pc[t].key))
  /\ h_pc' = [h_pc EXCEPT ![t].stage = "try", ![t].splits = @ + 1]
  /\ UNCHANGED <<h_ret, abs_map, m_ret, h_latch, h_done, lruVars, r_latch, r_pc>>

\* Find under its scoped_lock (line 85)
ThreadFind(t, key) ==
  /\ Caller(h_pc, t)
  /\ ScopedLock(h_latch, t)
  /\ DoFind(key)
  /\ UNCHANGED threadVars

\* Remove under its scoped_lock (line 97)
ThreadHashRemove(t, key) ==
  /\ Caller(h_pc, t)
  /\ ScopedLock(h_latch, t)
  /\ DoHashRemove(key)
  /\ h_done' = [Table EXCEPT !.heap = heap']
  /\ UNCHANGED <<r_latch, r_pc, h_latch, h_pc>>

\* GetGlobalDepth under its scoped_lock (line 49)
ThreadGetGlobalDepth(t) ==
  /\ Caller(h_pc, t)
  /\ ScopedLock(h_latch, t)
  /\ DoGetGlobalDepth
  /\ UNCHANGED threadVars

\* GetLocalDepth under its scoped_lock (line 61)
ThreadGetLocalDepth(t, dir_index) ==
  /\ Caller(h_pc, t)
  /\ ScopedLock(h_latch, t)
  /\ DoGetLocalDepth(dir_index)
  /\ UNCHANGED threadVars

\* GetNumBuckets under its scoped_lock (line 72)
ThreadGetNumBuckets(t) ==
  /\ Caller(h_pc, t)
  /\ ScopedLock(h_latch, t)
  /\ DoGetNumBuckets
  /\ UNCHANGED threadVars

\* a step of the loop of Insert by thread t
InsertStep(t) ==
  InsertTry(t) \/ InsertExtend(t) \/ InsertIncDepth(t) \/ InsertSplit(t)

NextHashThreads ==
  \/ \E t \in Threads, key \in Keys, value \in Values : InsertLock(t, key, value)
  \/ \E t \in Threads : InsertTry(t)
  \/ \E t \in Threads : InsertExtend(t)
  \/ \E t \in Threads : InsertIncDepth(t)
  \/ \E t \in Threads : InsertSplit(t)
  \/ \E t \in Threads, key \in Keys : ThreadFind(t, key)
  \/ \E t \in Threads, key \in Keys : ThreadHashRemove(t, key)
  \/ \E t \in Threads : ThreadGetGlobalDepth(t)
  \/ \E t \in Threads, dir_index \in 0..(Len(dir_) - 1) :
       ThreadGetLocalDepth(t, dir_index)
  \/ \E t \in Threads : ThreadGetNumBuckets(t)

SpecHashThreads == InitHash /\ [][NextHashThreads]_vars

\* The callers of Insert and Remove alone, which make every table state; a
\* thread inside Insert keeps running (it waits for nothing once it holds the
\* lock).
NextHashInsert ==
  \/ \E t \in Threads, key \in Keys, value \in Values : InsertLock(t, key, value)
  \/ \E t \in Threads : InsertTry(t)
  \/ \E t \in Threads : InsertExtend(t)
  \/ \E t \in Threads : InsertIncDepth(t)
  \/ \E t \in Threads : InsertSplit(t)
  \/ \E t \in Threads, key \in Keys : ThreadHashRemove(t, key)

SpecHashInsert ==
  /\ InitHash
  /\ [][NextHashInsert]_vars
  /\ \A t \in Threads : WF_vars(InsertStep(t))

(***************************************************************************)
(*                     Properties of ExtendibleHashTable                   *)
(***************************************************************************)
\* the buckets the directory references
Reachable == {dir_[i] : i \in 1..Len(dir_)}

\* the 0-based slots that reference bucket b
SlotsOf(b) == {i \in 0..(Len(dir_) - 1) : dir_[i + 1] = b}

\* what the key->value map holds for key, in the form Find returns it
AbsFind(key) == [found |-> abs_map[key] # NoValue, value |-> abs_map[key]]

\* C1: the table refines a key->value map. In every state Find(k) answers, for
\* every key, what the map of the calls made so far holds (found with the value
\* of the latest Insert, not found after a Remove or before any Insert), and
\* the last Find or Remove returned what the map returned for the same call.
C1_RefinesMap ==
  /\ \A key \in Keys : Find(Table, key) = AbsFind(key)
  /\ h_ret.op \in {"Find", "Remove"} =>
       /\ h_ret.ok = m_ret.ok
       /\ h_ret.out = m_ret.out

\* C1 witness: after two directory doublings and two splits, a Find returns
\* the value a second Insert of its key wrote.
C1_Witness ==
  /\ global_depth_ >= 2
  /\ num_buckets_ >= 3
  /\ h_ret.op = "Find"
  /\ h_ret.ok
  /\ h_ret.out = MaxVal
  /\ \E key \in Keys : key # h_ret.key /\ abs_map[key] = 1

\* C4: the directory has 2^global_depth slots, every slot references a live
\* bucket of local depth <= global depth, and every bucket is referenced by
\* exactly 2^(global_depth - local_depth) slots.
C4_DirectoryShape ==
  /\ Len(dir_) = Pow2(global_depth_)
  /\ \A i \in 1..Len(dir_) :
       /\ dir_[i] \in DOMAIN heap
       /\ GetDepth(heap[dir_[i]]) >= 0
       /\ GetDepth(heap[dir_[i]]) <= global_depth_
       /\ Cardinality(SlotsOf(dir_[i])) =
            Pow2(global_depth_ - GetDepth(heap[dir_[i]]))

\* C4 witness: an Insert doubled the directory twice and left a bucket of
\* local depth 1 under global depth 2, shared by two slots.
C4_Witness ==
  /\ h_ret.op = "Insert"
  /\ h_ret.doublings = 2
  /\ global_depth_ = 2
  /\ \E b \in Reachable : GetDepth(heap[b]) = 1 /\ Cardinality(SlotsOf(b)) = 2

\* C5: for every bucket B of local depth d, every key k in B and every slot
\* idx that references B, the low d bits of hash(k) are the low d bits of idx;
\* and IndexOf(k) is a slot of the bucket that holds k.
C5_KeysMatchSlots ==
  \A b \in Reachable : \A n \in 1..Len(GetItems(heap[b])) :
    LET k == GetItems(heap[b])[n].first
        mask == Pow2(GetDepth(heap[b])) - 1
    IN /\ \A idx \in SlotsOf(b) : BitAnd(Hash(k), mask) = BitAnd(idx, mask)
       /\ Slot(Table, IndexOf(Table, k)) = b

\* C5 witness: a bucket of local depth 1 under global depth 2 holds a key, and
\* a bucket of local depth 2 holds another.
C5_Witness ==
  /\ global_depth_ = 2
  /\ \E b \in Reachable : GetDepth(heap[b]) = 1 /\ GetItems(heap[b]) # <<>>
  /\ \E b \in Reachable : GetDepth(heap[b]) = 2 /\ GetItems(heap[b]) # <<>>

\* C6: num_buckets (what GetNumBuckets returns) is the number of distinct
\* buckets reachable from the directory; every call changes it by the number
\* of splits the call made, so nothing but a split changes it and each split
\* adds one.
C6_NumBuckets ==
  /\ [](/\ num_buckets_ = Cardinality(Reachable)
        /\ h_ret.op = "GetNumBuckets" => h_ret.out = Cardinality(Reachable))
  /\ [][num_buckets_' = num_buckets_ + h_ret'.splits]_vars

\* C6 witness: GetNumBuckets returns 3 after an Insert split twice in one call.
C6_Witness ==
  /\ h_ret.op = "GetNumBuckets"
  /\ h_ret.out = 3
  /\ global_depth_ = 2

\* the stored items of bucket b other than the one of key
OtherItems(h, b, key) ==
  SelectSeq(GetItems(h[b]), LAMBDA item : item.first # key)

\* One step of C14: an Insert of a key the table holds.
C14_Step ==
  (h_ret'.op = "Insert" /\ Find(Table, h_ret'.key).found) =>
    /\ global_depth_' = global_depth_
    /\ num_buckets_' = num_buckets_
    /\ dir_' = dir_
    /\ h_ret'.splits = 0
    /\ h_ret'.doublings = 0
    /\ DOMAIN heap' = DOMAIN heap
    /\ \A b \in DOMAIN heap :
         /\ GetDepth(heap'[b]) = GetDepth(heap[b])
         /\ Len(GetItems(heap'[b])) = Len(GetItems(heap[b]))
         /\ \A n \in 1..Len(GetItems(heap[b])) :
              /\ GetItems(heap'[b])[n].first = GetItems(heap[b])[n].first
              /\ GetItems(heap[b])[n].first # h_ret'.key =>
                   GetItems(heap'[b])[n] = GetItems(heap[b])[n]
         /\ OtherItems(heap', b, h_ret'.key) = OtherItems(heap, b, h_ret'.key)
    /\ Find(Table', h_ret'.key) = [found |-> TRUE, value |-> h_ret'.value]

\* C14: Insert(k, v) for a key already present overwrites its value and
\* changes nothing else: global depth, every local depth, the directory,
\* num_buckets and every other entry stay as they were, and the call neither
\* splits nor doubles, also when the bucket that holds k is full.
C14_OverwriteChangesNothingElse == [][C14_Step]_vars

\* C14 witness: an Insert found its key present, in a bucket that is full and
\* holds a second key, after the table had split.
C14_Witness ==
  /\ h_ret.op = "Insert"
  /\ m_ret.op = "Insert"
  /\ m_ret.ok
  /\ global_depth_ >= 1
  /\ LET B == heap[Slot(Table, IndexOf(Table, h_ret.key))] IN
       /\ IsFull(B)
       /\ Len(GetItems(B)) = 2
       /\ GetItems(B)[2].first = h_ret.key

\* C12: the operations of ExtendibleHashTable called by concurrent threads are
\* linearisable. A thread inside a call holds the table lock, so at most one
\* is inside; between calls the table is the state the last completed call
\* left, with the directory shape of C4; Find and Remove answer as the
\* key->value map of the completed calls (no present key is missed), and
\* GetGlobalDepth, GetLocalDepth and GetNumBuckets return the values of that
\* one state.
C12_TableCallsAreAtomic ==
  /\ \A t \in Threads : h_pc[t] # Idle => h_latch = t
  /\ h_latch = NoThread =>
       /\ \A t \in Threads : h_pc[t] = Idle
       /\ Table = h_done
       /\ C4_DirectoryShape
       /\ \A key \in Keys : Find(Table, key) = AbsFind(key)
  /\ h_ret.op = "Find" =>
       /\ [found |-> h_ret.ok, value |-> h_ret.out] = Find(h_done, h_ret.key)
       /\ h_ret.ok = m_ret.ok
       /\ h_ret.out = m_ret.out
  /\ h_ret.op = "Remove" => h_ret.ok = m_ret.ok
  /\ h_ret.op = "GetGlobalDepth" => h_ret.out = GetGlobalDepth(h_done)
  /\ h_ret.op = "GetLocalDepth" => h_ret.out = GetLocalDepth(h_done, h_ret.key)
  /\ h_ret.op = "GetNumBuckets" => h_ret.out = GetNumBuckets(h_done)

\* C12 witness: a thread is inside Insert, holding the lock, with the
\* directory doubled and global_depth_ not yet raised, for the second time in
\* the call, while the other thread is outside.
C12_Witness ==
  \E t \in Threads :
    /\ InsertAt(t, "inc")
    /\ h_latch = t
    /\ h_pc[t].doublings = 2
    /\ Len(dir_) = 2 * Pow2(global_depth_)
    /\ dir_ # h_done.dir
    /\ \E u \in Threads : u # t /\ h_pc[u] = Idle

\* the table answers without the lock: what C12 says of the answers alone
AnswersOfOneState ==
  /\ h_ret.op = "GetGlobalDepth" => h_ret.out = GetGlobalDepth(h_done)
  /\ h_ret.op = "GetNumBuckets" => h_ret.out = GetNumBuckets(h_done)

\* a thread inside Insert leaves it (the lock lets one thread at a time be
\* inside, so this is: some thread inside leads to none inside)
InsertReturns ==
  (\E t \in Threads : h_pc[t] # Idle) ~> (\A t \in Threads : h_pc[t] = Idle)

\* C13: Insert never fails and always ends. A thread inside Insert leaves it;
\* the cap on the directory never stops its loop; it makes at most as many
\* splits as the hash has bits, and the Insert that returned left its key
\* found with its value.
C13_InsertTerminates ==
  /\ InsertReturns
  /\ [](\A t \in Threads :
          /\ InsertAt(t, "extend") => global_depth_ < MaxDepth
          /\ h_pc[t] # Idle => h_pc[t].splits <= MaxDepth)
  /\ []((h_ret.op = "Insert" /\ h_ret.ok) =>
          /\ Find(Table, h_ret.key) = [found |-> TRUE, value |-> h_ret.value]
          /\ abs_map[h_ret.key] = h_ret.value)

\* C13 witness: an Insert returned after two splits and two doublings, and
\* its key is found.
C13_Witness ==
  /\ h_ret.op = "Insert"
  /\ h_ret.ok
  /\ h_ret.splits = 2
  /\ h_ret.doublings = 2
  /\ \A t \in Threads : h_pc[t] = Idle
  /\ Find(Table, h_ret.key).found

\* the split that thread t, inside Insert at SplitTheBucket(key), is to make
C17_SplitOf(t) ==
  LET T == Table
      key == h_pc[t].key
      B == Slot(T, IndexOf(T, key))
      d == GetDepth(T.heap[B]) + 1
      S == SplitTheBucket(T, key)
      B0 == Slot(S, BitAnd(IndexOf(T, key), Pow2(d) - 1 - Pow2(d - 1)))
      B1 == Slot(S, BitAnd(IndexOf(T, key), Pow2(d - 1) - 1) + Pow2(d - 1))
      old == GetItems(T.heap[B])
      toB1(item) == BitAnd(Hash(item.first), Pow2(d - 1)) # 0
  IN /\ IsFull(T.heap[B])
     /\ d <= T.global_depth
     /\ B0 # B1
     /\ B0 \notin DOMAIN T.heap
     /\ B1 \notin DOMAIN T.heap
     /\ Len(S.dir) = Len(T.dir)
     /\ \A i \in 0..(Len(T.dir) - 1) :
          Slot(S, i) = IF Slot(T, i) # B THEN Slot(T, i)
                       ELSE IF BitAnd(i, Pow2(d - 1)) # 0 THEN B1 ELSE B0
     /\ DOMAIN S.heap = (DOMAIN T.heap \ {B}) \cup {B0, B1}
     /\ \A b \in DOMAIN T.heap \ {B} : S.heap[b] = T.heap[b]
     /\ GetDepth(S.heap[B0]) = d
     /\ GetDepth(S.heap[B1]) = d
     /\ GetItems(S.heap[B0]) = SelectSeq(old, LAMBDA item : ~toB1(item))
     /\ GetItems(S.heap[B1]) = SelectSeq(old, LAMBDA item : toB1(item))
     /\ Len(GetItems(S.heap[B0])) + Len(GetItems(S.heap[B1])) = Len(old)
     /\ S.global_depth = T.global_depth
     /\ S.num_buckets = T.num_buckets + 1

\* C17: a split of a full bucket B of local depth d-1 redirects exactly the
\* slots that referenced B, to B1 where bit 1 << (d-1) of the slot index is set
\* and to B0 elsewhere, and leaves the other slots and buckets as they were;
\* B0 and B1 are new and have local depth d; every item of B goes to B1 or B0
\* by the same bit of its hash, and the items of B0 and B1 together are the
\* items B held, none lost, duplicated or changed.
C17_SplitRedistributes ==
  \A t \in Threads : InsertAt(t, "split") => C17_SplitOf(t)

\* C17 witness: a thread is about to split a full bucket of local depth 1 that
\* two of the four slots reference, while the other two slots reference two
\* other buckets.
C17_Witness ==
  \E t \in Threads :
    /\ InsertAt(t, "split")
    /\ global_depth_ = 2
    /\ num_buckets_ = 3
    /\ LET B == Slot(Table, IndexOf(Table, h_pc[t].key)) IN
         /\ GetDepth(heap[B]) = 1
         /\ Cardinality(SlotsOf(B)) = 2
         /\ IsFull(heap[B])

\* A further case of C17: the split of a two-item bucket sends one item to
\* each new bucket.
SplitsTwoItems ==
  \E t \in Threads :
    /\ InsertAt(t, "split")
    /\ bucket_size_ = 2
    /\ LET B == Slot(Table, IndexOf(Table, h_pc[t].key))
           S == SplitTheBucket(Table, h_pc[t].key)
       IN /\ Len(GetItems(heap[B])) = 2
          /\ \A b \in DOMAIN S.heap \ DOMAIN heap :
               Len(GetItems(S.heap[b])) = 1

\* the number of low hash bits that tell the keys 0..MaxKey apart
HashBits == CHOOSE n \in 0..(MaxKey + 1) :
              Pow2(n) > MaxKey /\ (n = 0 \/ Pow2(n - 1) <= MaxKey)

\* the bucket of key has room at local depth d: fewer than bucket_size of the
\* items of the bucket that holds key's slot share their low d hash bits with key
HasRoomAt(key, d) ==
  LET items == GetItems(heap[Slot(Table, IndexOf(Table, key))]) IN
  Cardinality({n \in 1..Len(items) :
     BitAnd(Hash(items[n].first), Pow2(d) - 1) = BitAnd(Hash(key), Pow2(d) - 1)})
    < bucket_size_

\* the least local depth, from the present one of key's bucket, with room for key
NeededDepth(key) ==
  LET from == GetDepth(heap[Slot(Table, IndexOf(Table, key))]) IN
  CHOOSE d \in from..HashBits :
    HasRoomAt(key, d) /\ \A e \in from..(d - 1) : ~HasRoomAt(key, e)

\* The statement of C19 as the claim words it: one Insert raises global_depth
\* by at most 1.
C19_AtMostOneDoubling ==
  [][h_ret'.op = "Insert" => global_depth_' <= global_depth_ + 1]_vars

\* One step of the amended C19.
C19_Step ==
  h_ret'.op = "Insert" =>
    /\ global_depth_' = global_depth_ + h_ret'.doublings
    /\ h_ret'.doublings <= h_ret'.splits
    /\ global_depth_' <= HashBits
    /\ global_depth_' =
         IF Find(Table, h_ret'.key).found THEN global_depth_
         ELSE IF NeededDepth(h_ret'.key) > global_depth_
              THEN NeededDepth(h_ret'.key) ELSE global_depth_

\* C19 (amended): a single Insert may double the directory more than once, at
\* most once per split it makes: global_depth after the call is global_depth
\* before plus the doublings of the call, and it is the larger of global_depth
\* before and the least local depth at which the bucket of the key has room
\* (at most the number of hash bits that tell the keys apart).
C19_DoublingsFollowSplits == [][C19_Step]_vars

\* C19 witness: with bucket_size 1 an Insert doubled the directory twice in one
\* call, from global depth 0 to 2.
C19_Witness ==
  /\ bucket_size_ = 1
  /\ h_ret.op = "Insert"
  /\ h_ret.doublings = 2
  /\ h_ret.splits = 2
  /\ global_depth_ = 2
  /\ num_buckets_ = 3

(***************************************************************************)
(*                        Properties of LRUKReplacer                       *)
(***************************************************************************)
\* the frames whose entry of frame_data_ has is_evictable set
Evictable ==
  {f \in Frames : frame_data_[f].present /\ frame_data_[f].is_evictable}

\* f has been accessed by RecordAccess since its last removal (or construction)
Tracked(f) == acc_log[f] # <<>>

\* the replacer's own state, as the calls leave it
repState ==
  <<frame_data_, history_list_, cache_list_, curr_size_, current_timestamp_>>

\* The reference policy over the recorded accesses: the evictable frames with
\* fewer than k accesses (backward k-distance +infinity) ...
RefInfinite == {f \in Evictable : Len(acc_log[f]) < k_}

\* ... the timestamp of a frame's k-th most recent access ...
RefKth(f) == acc_log[f][Len(acc_log[f]) - k_ + 1]

\* ... and the victims: among the infinite ones the earliest first access,
\* otherwise the oldest k-th most recent access.
RefVictims ==
  IF RefInfinite # {}
  THEN {f \in RefInfinite : \A g \in RefInfinite : acc_log[f][1] <= acc_log[g][1]}
  ELSE {f \in Evictable : \A g \in Evictable : RefKth(f) <= RefKth(g)}

\* a call of Evict with at least one evictable frame, each of them with a
\* recorded access, returns the reference policy's victim
C2_Step ==
  (/\ r_ret'.op = "Evict"
   /\ Evictable # {}
   /\ \A f \in Evictable : Tracked(f))
  => (r_ret'.ok /\ r_ret'.out \in RefVictims)

\* C2: for every k >= 1, in every state with an evictable frame Evict returns
\* the frame of the reference policy: with fewer than k accesses the one
\* accessed first, otherwise the one whose k-th most recent access is oldest.
C2_EvictFollowsPolicy == [][C2_Step]_vars

\* The statement of C2 for the replacers built with k >= 2.
EvictFollowsPolicyFromK2 == [][k_ >= 2 => C2_Step]_vars

\* C3: after every call curr_size_, the value Size() returns, is the number of
\* entries of frame_data_ whose is_evictable is true.
C3_SizeCountsEvictable ==
  /\ curr_size_ = Cardinality(Evictable)
  /\ r_ret.op = "Size" => r_ret.out = Cardinality(Evictable)

\* C3 witness: Size() returns 1 after three accesses, with two frames in
\* frame_data_ of which one is evictable.
C3_Witness ==
  /\ r_ret.op = "Size"
  /\ r_ret.out = 1
  /\ current_timestamp_ >= 3
  /\ Cardinality({f \in Frames : frame_data_[f].present}) = 2

\* a call of Evict returns none exactly when curr_size_ is 0, which is when no
\* tracked frame is evictable, and a returned frame was tracked and evictable
C7_Step ==
  r_ret'.op = "Evict" =>
    /\ (~r_ret'.ok) <=> (curr_size_ = 0)
    /\ (~r_ret'.ok) <=>
         ({f \in Frames : Tracked(f) /\ frame_data_[f].is_evictable} = {})
    /\ r_ret'.ok =>
         /\ Tracked(r_ret'.out)
         /\ frame_data_[r_ret'.out].present
         /\ frame_data_[r_ret'.out].is_evictable

\* C7: Evict returns none exactly when no tracked frame is evictable
\* (curr_size == 0); a frame it returns had been accessed by RecordAccess since
\* its last removal and was evictable at the call; a non-evictable frame is
\* never returned.
C7_EvictReturnsTrackedEvictable == [][C7_Step]_vars

\* The statement of C7 for the replacers built with k >= 2.
EvictReturnsTrackedEvictableFromK2 == [][k_ >= 2 => C7_Step]_vars

\* C8: when Evict returns frame f, afterwards f is no key of frame_data_,
\* curr_size_ is one less than before, and the access history and the
\* evictable flag of every other frame are what they were.
C8_EvictFrame ==
  [][(r_ret'.op = "Evict" /\ r_ret'.ok) =>
       /\ ~frame_data_'[r_ret'.out].present
       /\ curr_size_' = curr_size_ - 1
       /\ \A g \in Frames \ {r_ret'.out} :
            /\ frame_data_'[g].access_times = frame_data_[g].access_times
            /\ frame_data_'[g].is_evictable = frame_data_[g].is_evictable]_vars

\* C8 witness: Evict returned a frame while the other frame, evictable and
\* with two accesses stored, stayed.
C8_Witness ==
  /\ r_ret.op = "Evict"
  /\ r_ret.ok
  /\ \E g \in Frames \ {r_ret.out} :
       /\ g \in Evictable
       /\ Len(frame_data_[g].access_times) >= 2

\* a call of Remove on a tracked frame that is not evictable throws and
\* changes nothing; on an untracked frame it returns and changes nothing
C9_Step ==
  r_ret'.op = "Remove" =>
    /\ (Tracked(r_ret'.frame) /\ ~frame_data_[r_ret'.frame].is_evictable) =>
         (~r_ret'.ok /\ UNCHANGED repState)
    /\ ~Tracked(r_ret'.frame) => (r_ret'.ok /\ UNCHANGED repState)

\* C9: Remove(f) on a tracked, non-evictable frame ends in an exception and
\* leaves frame_data, both lists, curr_size and current_timestamp as they
\* were; Remove(f) on an untracked frame is a no-op without error.
C9_RemoveErrors == [][C9_Step]_vars

\* The statement of C9 for the replacers built with k >= 2.
RemoveErrorsFromK2 == [][k_ >= 2 => C9_Step]_vars

\* a call of SetEvictable(f, b): nothing changes for an unknown f; for a
\* tracked f curr_size_ moves by one exactly when the flag changes; a second
\* call with the same arguments changes nothing more
C10_Step ==
  r_ret'.op = "SetEvictable" =>
    LET f == r_ret'.frame
        b == r_ret'.flag
    IN /\ ~Tracked(f) => UNCHANGED repState
       /\ Tracked(f) =>
            /\ frame_data_'[f].is_evictable = b
            /\ curr_size_' = curr_size_ +
                 (IF frame_data_[f].is_evictable = b THEN 0
                  ELSE IF b THEN 1 ELSE -1)
       /\ SetEvictable(SetEvictable(Replacer, f, b), f, b) =
            SetEvictable(Replacer, f, b)

\* C10: for every k >= 1, SetEvictable(f, b) on a frame not accessed since
\* construction or its last Evict/Remove changes nothing, curr_size included;
\* on a tracked frame curr_size changes by +1/-1 only when the flag changes,
\* and calling it twice with the same b equals calling it once.
C10_SetEvictable == [][C10_Step]_vars

\* The statement of C10 for the replacers built with k >= 2.
SetEvictableFromK2 == [][k_ >= 2 => C10_Step]_vars

\* the number of places of list that hold f
Occurrences(list, f) == Cardinality({i \in 1..Len(list) : list[i] = f})

\* the state of C15: every entry of frame_data_ is once in the list its number
\* of accesses selects and not in the other, and the lists hold nothing else
C15_State ==
  \A f \in Frames :
    IF frame_data_[f].present
    THEN IF Len(frame_data_[f].access_times) < k_
         THEN Occurrences(history_list_, f) = 1 /\ Occurrences(cache_list_, f) = 0
         ELSE Occurrences(history_list_, f) = 0 /\ Occurrences(cache_list_, f) = 1
    ELSE Occurrences(history_list_, f) = 0 /\ Occurrences(cache_list_, f) = 0

\* C15: for every k >= 1 each tracked frame is exactly once in exactly one of
\* the two lists, history_list_ iff it has fewer than k accesses and
\* cache_list_ iff it has k or more, and no frame without an entry of
\* frame_data_ is in either list.
C15_ListsPartitionFrames == C15_State

\* The statement of C15 for the replacers built with k >= 2.
ListsPartitionFramesFromK2 == k_ >= 2 => C15_State

\* a removal of C16: Remove(f) of a tracked evictable f, or an Evict that
\* returned f
C16_Removed(f) ==
  \/ /\ r_ret'.op = "Remove"
     /\ r_ret'.frame = f
     /\ Tracked(f)
     /\ frame_data_[f].present
     /\ frame_data_[f].is_evictable
  \/ /\ r_ret'.op = "Evict"
     /\ r_ret'.ok
     /\ r_ret'.out = f

\* One step of C16.
C16_Step ==
  /\ \A f \in Frames : C16_Removed(f) =>
       /\ Occurrences(history_list_', f) = 0
       /\ Occurrences(cache_list_', f) = 0
       /\ ~frame_data_'[f].present
       /\ curr_size_' = curr_size_ - 1
  /\ (r_ret'.op = "RecordAccess" /\ ~Tracked(r_ret'.frame)) =>
       frame_data_'[r_ret'.frame] =
         [present |-> TRUE, access_times |-> <<current_timestamp_'>>,
          is_evictable |-> FALSE]

\* C16: for every k >= 1 a successful removal of an evictable tracked frame f
\* (Remove(f), or Evict choosing f) takes f out of whichever list holds it,
\* erases it from frame_data_ and lowers curr_size_ by 1, so that f is in
\* neither list afterwards, and the next RecordAccess(f) starts a fresh,
\* single-access, non-evictable history.
C16_RemovalClearsFrame == [][C16_Step]_vars

\* The statement of C16 for the replacers built with k >= 2.
RemovalClearsFrameFromK2 == [][k_ >= 2 => C16_Step]_vars

\* C20: keeping k+1 timestamps of a frame is not observable: a replacer that
\* keeps only the last k, given the same calls, returned for the last call what
\* the source returned (the victim or none of Evict, the value of Size, the
\* exception of Remove), and the two hold the same lists and the same curr_size.
C20_KeepingKIsEquivalent ==
  /\ alt_ret.ok = r_ret.ok
  /\ alt_ret.out = r_ret.out
  /\ alt.hist = history_list_
  /\ alt.cache = cache_list_
  /\ alt.size = curr_size_

\* C20 witness: Evict returned a frame of cache_list_ while another evictable
\* frame of cache_list_ holds k+1 timestamps in the source and k in the other
\* replacer.
C20_Witness ==
  /\ r_ret.op = "Evict"
  /\ r_ret.ok
  /\ k_ = 2
  /\ \E g \in Frames :
       /\ g # r_ret.out
       /\ frame_data_[g].is_evictable
       /\ Occurrences(cache_list_, g) = 1
       /\ Len(frame_data_[g].access_times) = k_ + 1
       /\ Len(alt.data[g].access_times) = k_

\* C11: every public operation of LRUKReplacer (Evict, RecordAccess,
\* SetEvictable, Remove, Size) holds the replacer's lock for the whole time it
\* reads or writes the state: a thread inside a call holds latch_, and no
\* thread is inside Remove while another is inside RecordAccess, SetEvictable
\* or Evict.
C11_OperationsHoldLatch ==
  /\ \A t \in Threads : r_pc[t] # Idle => r_latch = t
  /\ \A t1 \in Threads, t2 \in Threads :
       ~(/\ t1 # t2
         /\ r_pc[t1] # Idle
         /\ r_pc[t1].op = "Remove"
         /\ r_pc[t2] # Idle
         /\ r_pc[t2].op \in {"RecordAccess", "SetEvictable", "Evict"})

\* What a linearisable replacer keeps between calls (C3): curr_size_ is the
\* number of evictable entries. Concurrent callers of Remove break it.
SizeCountsEvictableUnderThreads == curr_size_ = Cardinality(Evictable)

\* the state of C18
C18_State ==
  \A f \in Frames :
    /\ frame_data_[f].present <=> Tracked(f)
    /\ frame_data_[f].present =>
         LET times == frame_data_[f].access_times IN
         /\ Len(times) >= 1
         /\ Len(times) <= k_ + 1
         /\ \A i \in 1..Len(times) : times[i] <= current_timestamp_
         /\ \A i \in 1..(Len(times) - 1) : times[i] < times[i + 1]

\* C18: for every k >= 1 frame_data_ has an entry for f exactly when f has
\* been accessed by RecordAccess since its last removal (or construction), and
\* every entry holds between 1 and k+1 timestamps, strictly increasing and
\* none above current_timestamp_.
C18_EntriesAreAccessedFrames == C18_State

\* The statement of C18 for the replacers built with k >= 2.
EntriesAreAccessedFramesFromK2 == k_ >= 2 => C18_State

====
